---- MODULE Spec2Model ----
(***************************************************************************)
(* Model of common_analysis_base: the AnalysisPlugin base class, its       *)
(* capability mixins and convenience classes (analysis_plugin.py), and the *)
(* command line test client (command_line_client.py).                      *)
(*                                                                         *)
(* Python values are modelled as strings; None is the string NoneValue.    *)
(* A dict is a function whose DOMAIN is its key set.  Dicts live in a heap *)
(* (a sequence) and are referred to by their index, so that object         *)
(* identity and aliasing are part of the state.                            *)
(***************************************************************************)
EXTENDS Integers, Sequences, FiniteSets, TLC

\* ------------------------------------------------------------------ bounds
MaxClock == 1
MaxReports == 2

\* ------------------------------------------------------------ Python values
NoneValue == "<None>"
Versions == {"1.0", "2.0"}
SysVersions == {NoneValue, "", "db7"}
Inputs == {"/tmp/x"}

\* The five capabilities for which a mixin exists.
Caps == {"file", "url", "ip", "domain", "string"}
\* The capabilities for which AnalysisPlugin defines a can_analyze_X method.
QueryCaps == {"file", "url", "ip", "domain"}

\* The plugin classes the package exports.
BaseClasses == {"AnalysisPlugin", "AnalysisPluginFile", "AnalysisPluginURL",
                "AnalysisPluginIP", "AnalysisPluginDomain", "AnalysisPluginString"}

\* The mixins a class of the package derives from, as the set of the
\* capabilities whose placeholder analyze_X it inherits.
MixinsOf(base) ==
  CASE base = "AnalysisPlugin" -> {}
    [] base = "AnalysisPluginFile" -> {"file"}
    [] base = "AnalysisPluginURL" -> {"url"}
    [] base = "AnalysisPluginIP" -> {"ip"}
    [] base = "AnalysisPluginDomain" -> {"domain"}
    [] base = "AnalysisPluginString" -> {"string"}

\* What a concrete plugin derived from a class of the package can itself bind
\* to the name analyze_X: nothing, a method, or a value that is not callable.
OwnKinds == {"none", "method", "data"}
PluginClasses == [base : BaseClasses, own : [Caps -> OwnKinds]]

VARIABLES klass, constructed, ctor_args, plugin_version, system_version,
          ret, now, heap, handles,
          cmdline, pc, exit_status, events

\* The plugin object and what its caller holds.
lib == <<klass, constructed, ctor_args, plugin_version, system_version,
         ret, now, heap, handles>>
\* The command line client's run.
cli == <<cmdline, pc, exit_status, events>>
vars == <<lib, cli>>

\* getattr(self, "analyze_X"): the subclass's own binding shadows the mixin's
\* placeholder; without either the attribute is absent.
Lookup(k, X) ==
  IF k.own[X] # "none" THEN k.own[X]
  ELSE IF X \in MixinsOf(k.base) THEN "placeholder"
  ELSE "absent"

HasAttr(k, X) == Lookup(k, X) # "absent"
Callable(k, X) == Lookup(k, X) \in {"method", "placeholder"}

\* ---------------------------------------------------------------- reports
\* The key a concrete analyzer adds for its own finding, and the value a
\* caller writes into a report it was handed.
AnalyzerKey == "result"
Tampered == "tampered"

EmptyDict == [k \in {} |-> NoneValue]

\* Variant: the optional key guarded by "if self.system_version:" instead of
\* "is not None", which drops an empty system_version.
ReportDict_Truthiness(pv, sv, t) ==
  [k \in {"plugin_version", "analysis_date"} \cup
         (IF sv # NoneValue /\ sv # "" THEN {"system_version"} ELSE {}) |->
     CASE k = "plugin_version" -> pv
       [] k = "analysis_date" -> t
       [] k = "system_version" -> sv]

\* The dict literal of prepare_analysis_report_dictionary for a plugin whose
\* attributes are pv and sv, built when the clock reads t.
ReportDict(pv, sv, t) ==
  [k \in {"plugin_version", "analysis_date"} \cup
         (IF sv # NoneValue THEN {"system_version"} ELSE {}) |->
     CASE k = "plugin_version" -> pv
       [] k = "analysis_date" -> t
       [] k = "system_version" -> sv]

\* d with d[k] = v (Python: d[k] = v) and d without k (Python: del d[k]).
DictSet(d, k, v) == [x \in DOMAIN d \cup {k} |-> IF x = k THEN v ELSE d[x]]
DictDel(d, k) == [x \in DOMAIN d \ {k} |-> d[x]]

\* Variant: the dict is built once and the same object handed out again.
NewHandle_Cached(h) == IF Len(h) = 0 THEN 1 ELSE Len(h)

\* The index prepare_analysis_report_dictionary's result gets in the heap: a
\* dict literal is a new object on every evaluation.
NewHandle(h) == Len(h) + 1

NoRet == [op |-> "none", cap |-> "none", outcome |-> "none", value |-> EmptyDict]

\* ------------------------------------------------------------ AnalysisPlugin
\* AnalysisPlugin.__init__(plugin_version, system_version=None); sv_arg is
\* Omitted when the caller leaves the optional argument out.
Omitted == "<omitted>"
InitAttrs(pv_arg, sv_arg) ==
  [plugin_version |-> pv_arg,
   system_version |-> IF sv_arg = Omitted THEN NoneValue ELSE sv_arg]

Construct(pv_arg, sv_arg) ==
  /\ ~constructed
  /\ constructed' = TRUE
  /\ ctor_args' = [plugin_version |-> pv_arg, system_version |-> sv_arg]
  /\ plugin_version' = InitAttrs(pv_arg, sv_arg).plugin_version
  /\ system_version' = InitAttrs(pv_arg, sv_arg).system_version
  /\ UNCHANGED <<klass, ret, now, heap, handles, cli>>

\* Variant: hasattr(...) alone, without the callable(...) test.
CanAnalyzeResult_HasAttrOnly(k, X) ==
  IF X \in QueryCaps
  THEN IF HasAttr(k, X) THEN "True" ELSE "False"
  ELSE "AttributeError"

\* can_analyze_file / _url / _ip / _domain: hasattr(...) and callable(...).
\* AnalysisPlugin defines no can_analyze_string, so asking for it is an
\* attribute lookup that fails.
CanAnalyzeResult(k, X) ==
  IF X \in QueryCaps
  THEN IF HasAttr(k, X) /\ Callable(k, X) THEN "True" ELSE "False"
  ELSE "AttributeError"

CanAnalyze(X) ==
  /\ constructed
  /\ ret' = [op |-> "can_analyze", cap |-> X,
             outcome |-> CanAnalyzeResult(klass, X), value |-> EmptyDict]
  /\ UNCHANGED <<klass, constructed, ctor_args, plugin_version, system_version,
                 now, heap, handles, cli>>

\* Variant: AnalysisPlugin itself carrying the placeholders, so that a missing
\* analyze_X raises NotImplementedError.
InvokeOutcome_BasePlaceholders(k, X) ==
  CASE Lookup(k, X) = "absent" -> "NotImplementedError"
    [] Lookup(k, X) = "data" -> "TypeError"
    [] Lookup(k, X) = "placeholder" -> "NotImplementedError"
    [] Lookup(k, X) = "method" -> "report"

\* plugin.analyze_X(arg): what the call ends with.  An absent attribute fails
\* the lookup, a non-callable one fails the call, the mixin's placeholder
\* raises NotImplementedError, a concrete method returns a report.
InvokeOutcome(k, X) ==
  CASE Lookup(k, X) = "absent" -> "AttributeError"
    [] Lookup(k, X) = "data" -> "TypeError"
    [] Lookup(k, X) = "placeholder" -> "NotImplementedError"
    [] Lookup(k, X) = "method" -> "report"

\* The report of a concrete analyze_X: the base dict plus the analyzer's field.
ConcreteReport(pv, sv, t, arg) == DictSet(ReportDict(pv, sv, t), AnalyzerKey, arg)

Invoke(X, arg) ==
  /\ constructed
  /\ ret' = [op |-> "analyze", cap |-> X, outcome |-> InvokeOutcome(klass, X),
             value |-> IF InvokeOutcome(klass, X) = "report"
                       THEN ConcreteReport(plugin_version, system_version, now, arg)
                       ELSE EmptyDict]
  /\ UNCHANGED <<klass, constructed, ctor_args, plugin_version, system_version,
                 now, heap, handles, cli>>

\* datetime.datetime.now() is read from a clock that only moves forward.
Tick ==
  /\ now < MaxClock
  /\ now' = now + 1
  /\ UNCHANGED <<klass, constructed, ctor_args, plugin_version, system_version,
                 ret, heap, handles, cli>>

\* Variant: the method normalises a missing system_version on the plugin
\* while building the report.
Prepare_WritesAttribute ==
  /\ constructed
  /\ Len(handles) < MaxReports
  /\ heap' = Append(heap, ReportDict(plugin_version, system_version, now))
  /\ handles' = Append(handles, Len(heap) + 1)
  /\ ret' = [op |-> "prepare", cap |-> "none", outcome |-> "report", value |-> EmptyDict]
  /\ system_version' = IF system_version = NoneValue THEN "" ELSE system_version
  /\ UNCHANGED <<klass, constructed, ctor_args, plugin_version, now, cli>>

\* prepare_analysis_report_dictionary(): builds the dict and returns it; the
\* caller holds the returned object (handles records what each call returned).
Prepare ==
  /\ constructed
  /\ Len(handles) < MaxReports
  /\ LET h == NewHandle(heap)
         d == ReportDict(plugin_version, system_version, now)
     IN /\ heap' = IF h > Len(heap) THEN Append(heap, d) ELSE heap
        /\ handles' = Append(handles, h)
        /\ ret' = [op |-> "prepare", cap |-> "none", outcome |-> "report", value |-> EmptyDict]
  /\ UNCHANGED <<klass, constructed, ctor_args, plugin_version, system_version, now, cli>>

\* The caller changes the dict one call returned: report[k] = v.
SetKey(i, k, v) ==
  /\ i \in 1..Len(handles)
  /\ heap' = [heap EXCEPT ![handles[i]] = DictSet(@, k, v)]
  /\ UNCHANGED <<klass, constructed, ctor_args, plugin_version, system_version,
                 ret, now, handles, cli>>

\* The caller removes a key of the dict one call returned: del report[k].
DelKey(i, k) ==
  /\ i \in 1..Len(handles)
  /\ k \in DOMAIN heap[handles[i]]
  /\ heap' = [heap EXCEPT ![handles[i]] = DictDel(@, k)]
  /\ UNCHANGED <<klass, constructed, ctor_args, plugin_version, system_version,
                 ret, now, handles, cli>>

\* ------------------------------------------------------- capability queries
NoClass == [base |-> "AnalysisPlugin", own |-> [X \in Caps |-> "none"]]
NoCmdline == [kind |-> "none", analysis_module |-> NoneValue, file |-> NoneValue,
              url |-> NoneValue, ip |-> NoneValue, domain |-> NoneValue]

LibInit ==
  /\ constructed = FALSE
  /\ ctor_args = [plugin_version |-> NoneValue, system_version |-> Omitted]
  /\ plugin_version = NoneValue
  /\ system_version = NoneValue
  /\ ret = NoRet
  /\ now = 0
  /\ heap = <<>>
  /\ handles = <<>>

CliIdle ==
  /\ cmdline = NoCmdline
  /\ pc = "idle"
  /\ exit_status = -1
  /\ events = <<>>

Init ==
  /\ klass \in PluginClasses
  /\ LibInit
  /\ CliIdle

Next ==
  \/ \E pv \in Versions, sv \in SysVersions \cup {Omitted} : Construct(pv, sv)
  \/ \E X \in Caps : CanAnalyze(X)
  \/ \E X \in Caps, arg \in Inputs : Invoke(X, arg)

Spec == Init /\ [][Next]_vars

\* The declaration of the class says whether analyze_X is a callable attribute:
\* the plugin defines a method of that name, or inherits the mixin's.
DeclaresCallable(k, X) ==
  \/ k.own[X] = "method"
  \/ k.own[X] = "none" /\ X \in MixinsOf(k.base)
DeclaresNothing(k, X) == k.own[X] = "none" /\ X \notin MixinsOf(k.base)

\* C1: for every plugin and every X in {file, url, ip, domain},
\* can_analyze_X() returns True exactly when the plugin has a callable
\* attribute analyze_X, and False otherwise (absent, or present but not
\* callable), whatever class it was derived from.
C1_CanAnalyzeIffCallable ==
  (ret.op = "can_analyze" /\ ret.cap \in QueryCaps) =>
    /\ ret.outcome \in {"True", "False"}
    /\ ret.outcome = "True" <=> DeclaresCallable(klass, ret.cap)

\* C1 witness: a query answered False for an attribute that is present but
\* not callable, on a plugin derived from a convenience class.
C1_Witness ==
  /\ ret.op = "can_analyze" /\ ret.cap = "url" /\ ret.outcome = "False"
  /\ klass.own["url"] = "data"
  /\ klass.base = "AnalysisPluginURL"

\* A plugin that declares the file capability and no other.
FileOnly(k) ==
  /\ k.base \in {"AnalysisPlugin", "AnalysisPluginFile"}
  /\ k.own = [X \in Caps |-> IF X = "file" THEN "method" ELSE "none"]

\* C2 (as claimed): a plugin declaring only the file capability answers False
\* to the supports query for url, ip, domain and string.
C2_FileOnlyAnswersFalse ==
  (FileOnly(klass) /\ ret.op = "can_analyze" /\ ret.cap \in Caps \ {"file"}) =>
    ret.outcome = "False"

C10_SupportedNeverNotImplemented ==
  [][(/\ ret.op = "can_analyze" /\ ret.outcome = "True"
      /\ ret'.op = "analyze" /\ ret'.cap = ret.cap)
     => ret'.outcome # "NotImplementedError"]_vars

\* ------------------------------------------------------------------ reports
\* Plugins written the way the package intends: derived from AnalysisPlugin or
\* from the file convenience class, overriding its placeholder or not.
ReportClasses ==
  {k \in PluginClasses :
     /\ k.base \in {"AnalysisPlugin", "AnalysisPluginFile"}
     /\ \A X \in Caps : k.own[X] \in {"none", "method"} /\ (k.own[X] = "method" => X \in MixinsOf(k.base))}

InitReport ==
  /\ klass \in ReportClasses
  /\ LibInit
  /\ CliIdle

NextReport ==
  \/ \E pv \in Versions, sv \in SysVersions \cup {Omitted} : Construct(pv, sv)
  \/ \E X \in QueryCaps : CanAnalyze(X)
  \/ Tick
  \/ Prepare
  \/ \E i \in 1..MaxReports, k \in {"plugin_version", AnalyzerKey} : SetKey(i, k, Tampered)
  \/ \E i \in 1..MaxReports : DelKey(i, "plugin_version")

SpecReport == InitReport /\ [][NextReport]_vars

\* Whether the caller gave the constructor a system_version.
SuppliedSystemVersion == ctor_args.system_version \notin {Omitted, NoneValue}

\* The dict the latest call of prepare_analysis_report_dictionary returned.
Latest(hs, hp) == hp[hs[Len(hs)]]

\* C3: the dict prepare_analysis_report_dictionary() returns holds
\* plugin_version (the plugin's), analysis_date (the time of the call), and
\* system_version exactly when one was given to the constructor; built with
\* plugin_version "1.0" and no system_version it has no system_version key.
C3_ReportKeys ==
  [][Len(handles') > Len(handles) =>
       LET d == Latest(handles', heap')
       IN /\ "plugin_version" \in DOMAIN d
          /\ d["plugin_version"] = plugin_version
          /\ "analysis_date" \in DOMAIN d
          /\ d["analysis_date"] = now
          /\ "system_version" \in DOMAIN d <=> SuppliedSystemVersion
          /\ SuppliedSystemVersion => d["system_version"] = ctor_args.system_version
          /\ (ctor_args.plugin_version = "1.0" /\ ctor_args.system_version = Omitted)
               => DOMAIN d = {"plugin_version", "analysis_date"}]_vars

\* C3 witness: a plugin built with "1.0" and no system_version has returned a
\* report with the two base keys only, stamped after the clock moved.
C3_Witness ==
  /\ ctor_args = [plugin_version |-> "1.0", system_version |-> Omitted]
  /\ Len(handles) = 1
  /\ DOMAIN heap[handles[1]] = {"plugin_version", "analysis_date"}
  /\ heap[handles[1]]["plugin_version"] = "1.0"
  /\ heap[handles[1]]["analysis_date"] = 1

\* The calls whose returned dict a step changed.
Changed(hs, hp, hq) == {i \in 1..Len(hs) : hq[hs[i]] # hp[hs[i]]}

\* C8: every call of prepare_analysis_report_dictionary() returns a new dict:
\* no two calls return the same object, a call leaves the dicts returned
\* earlier as they are, and a change of keys in one returned dict changes
\* neither the plugin's attributes nor any other returned dict.
C8_FreshReport ==
  /\ [](\A i, j \in 1..Len(handles) : i # j => handles[i] # handles[j])
  /\ [][Len(handles') > Len(handles) => Changed(handles, heap, heap') = {}]_vars
  /\ [][(handles' = handles /\ heap' # heap) =>
          /\ Cardinality(Changed(handles, heap, heap')) = 1
          /\ plugin_version' = plugin_version
          /\ system_version' = system_version]_vars

\* C8 witness: two reports were returned, the first had a key added and its
\* plugin_version removed, and the second still is as it was built.
C8_Witness ==
  /\ Len(handles) = 2
  /\ DOMAIN heap[handles[1]] = {"analysis_date", AnalyzerKey}
  /\ heap[handles[2]] = ReportDict(plugin_version, system_version, heap[handles[2]]["analysis_date"])

ArgValues == {NoneValue, "", "/tmp/x"}
Cmdlines ==
  [kind : {"args"}, analysis_module : {NoneValue, "plugin_module"},
   file : ArgValues, url : ArgValues, ip : ArgValues, domain : ArgValues]
  \cup {[NoCmdline EXCEPT !.kind = "version"], [NoCmdline EXCEPT !.kind = "usage_error"]}

\* The classes a loaded module binds to analysis_class.
CliClasses ==
  {k \in PluginClasses :
     \A X \in Caps : k.own[X] \in {"none", "method"} /\ (X = "string" => k.own[X] = "none")}

\* The versions the loaded class's own __init__ hands to AnalysisPlugin.__init__.
CliVersions == {"1.0"}
CliSysVersions == {Omitted, "db7"}

\* Python's truth value of an optional string argument.
Truthy(v) == v # NoneValue /\ v # ""

Event(kind, what, value) == [kind |-> kind, what |-> what, value |-> value]

\* sys.exit(n), and the interpreter's exit status for an exception nobody caught.
UncaughtExitStatus == 1
Terminate(status) == pc' = "done" /\ exit_status' = status

\* _setup_argparser and _setup_logging: parse_args() returns the arguments, or
\* prints the version and exits 0, or reports a usage error and exits 2.
SetupArgparser ==
  /\ pc = "start"
  /\ IF cmdline.kind = "version" THEN Terminate(0)
     ELSE IF cmdline.kind = "usage_error" THEN Terminate(2)
     ELSE pc' = "load" /\ UNCHANGED exit_status
  /\ UNCHANGED <<lib, cmdline, events>>

\* Variant: the except branches log the failure and fall through instead of
\* re-raising, so that _main goes on with whatever was returned.
LoadAnalysisClass_Swallow(result, k) ==
  /\ pc = "load"
  /\ IF cmdline.analysis_module = NoneValue
     THEN /\ events' = Append(events, [kind |-> "log_error", what |-> "no_module", value |-> EmptyDict])
          /\ pc' = "done" /\ exit_status' = 1
          /\ UNCHANGED klass
     ELSE IF result = "ok"
     THEN /\ klass' = k
          /\ pc' = "instantiate"
          /\ UNCHANGED <<events, exit_status>>
     ELSE /\ events' = Append(events, [kind |-> "log_error", what |-> result, value |-> EmptyDict])
          /\ pc' = "instantiate"
          /\ UNCHANGED <<klass, exit_status>>
  /\ UNCHANGED <<constructed, ctor_args, plugin_version, system_version,
                 ret, now, heap, handles, cmdline>>

\* _load_analysis_class_from_module: exit(1) without a module name; otherwise
\* import the module and read its analysis_class, logging and re-raising an
\* ImportError or AttributeError.
LoadResults == {"ok", "ImportError", "AttributeError"}
LoadAnalysisClass(result, k) ==
  /\ pc = "load"
  /\ IF cmdline.analysis_module = NoneValue
     THEN /\ events' = Append(events, Event("log_error", "no_module", EmptyDict))
          /\ Terminate(1)
          /\ UNCHANGED klass
     ELSE IF result = "ok"
     THEN /\ klass' = k
          /\ pc' = "instantiate"
          /\ UNCHANGED <<events, exit_status>>
     ELSE /\ events' = Append(events, Event("log_error", result, EmptyDict))
          /\ Terminate(UncaughtExitStatus)
          /\ UNCHANGED klass
  /\ UNCHANGED <<constructed, ctor_args, plugin_version, system_version,
                 ret, now, heap, handles, cmdline>>

\* _analyze, first line: analyzer = analysis_class(); the class's own __init__
\* hands its versions to AnalysisPlugin.__init__.
Instantiate(pv_arg, sv_arg) ==
  /\ pc = "instantiate"
  /\ constructed' = TRUE
  /\ ctor_args' = [plugin_version |-> pv_arg, system_version |-> sv_arg]
  /\ plugin_version' = InitAttrs(pv_arg, sv_arg).plugin_version
  /\ system_version' = InitAttrs(pv_arg, sv_arg).system_version
  /\ pc' = "file"
  /\ UNCHANGED <<klass, ret, now, heap, handles, cmdline, exit_status, events>>

\* The order in which _analyze goes through the inputs.
NextPc(X) ==
  CASE X = "file" -> "url"
    [] X = "url" -> "ip"
    [] X = "ip" -> "domain"
    [] X = "domain" -> "exit"

\* Variant: "if file_path is not None:".
Requested_IsNotNone(v) == v # NoneValue

\* Whether _analyze handles input X at all: "if file_path:" and its like.
Requested(v) == Truthy(v)

\* _analyze_X(analyzer, value) followed by _pretty_print(result): the events
\* the step adds when it returns.  result is None after the skip warning.
AnalyzeEvents(k, X, report) ==
  IF CanAnalyzeResult(k, X) = "True"
  THEN <<Event("query", X, EmptyDict), Event("invoke", X, EmptyDict)>> \o
       (IF InvokeOutcome(k, X) = "report"
        THEN <<Event("print", X, report)>>
        ELSE <<Event("raise", InvokeOutcome(k, X), EmptyDict)>>)
  ELSE <<Event("query", X, EmptyDict), Event("warn", X, EmptyDict),
         Event("print_none", X, EmptyDict)>>

\* One "if value:" block of _analyze.  An exception of analyze_X leaves
\* _analyze and _main and ends the process.
AnalyzeStep(X) ==
  /\ pc = X
  /\ IF ~Requested(cmdline[X])
     THEN /\ pc' = NextPc(X)
          /\ UNCHANGED <<events, exit_status>>
     ELSE /\ events' = events \o AnalyzeEvents(klass, X,
                          ConcreteReport(plugin_version, system_version, now, cmdline[X]))
          /\ IF CanAnalyzeResult(klass, X) = "True" /\ InvokeOutcome(klass, X) # "report"
             THEN Terminate(UncaughtExitStatus)
             ELSE pc' = NextPc(X) /\ UNCHANGED exit_status
  /\ UNCHANGED <<lib, cmdline>>

AnalyzeFile == AnalyzeStep("file")
AnalyzeUrl == AnalyzeStep("url")
AnalyzeIp == AnalyzeStep("ip")
AnalyzeDomain == AnalyzeStep("domain")

\* Variant: _main ending with exit(1).
MainExit_Status1 ==
  /\ pc = "exit"
  /\ pc' = "done" /\ exit_status' = 1
  /\ UNCHANGED <<lib, cmdline, events>>

\* _main, last line: exit(0).
MainExit ==
  /\ pc = "exit"
  /\ Terminate(0)
  /\ UNCHANGED <<lib, cmdline, events>>

InitCli ==
  /\ klass = NoClass
  /\ LibInit
  /\ cmdline \in Cmdlines
  /\ pc = "start"
  /\ exit_status = -1
  /\ events = <<>>

NextCli ==
  \/ SetupArgparser
  \/ \E result \in LoadResults, k \in CliClasses : LoadAnalysisClass(result, k)
  \/ \E pv \in CliVersions, sv \in CliSysVersions : Instantiate(pv, sv)
  \/ AnalyzeFile
  \/ AnalyzeUrl
  \/ AnalyzeIp
  \/ AnalyzeDomain
  \/ MainExit

SpecCli == InitCli /\ [][NextCli]_vars

\* What the run has done so far.
Has(kind, what) == \E i \in 1..Len(events) : events[i].kind = kind /\ events[i].what = what
Count(kind, what) == Cardinality({i \in 1..Len(events) : events[i].kind = kind /\ events[i].what = what})
HasBefore(kind1, kind2, what) ==
  \E i, j \in 1..Len(events) :
    /\ i < j
    /\ events[i].kind = kind1 /\ events[i].what = what
    /\ events[j].kind = kind2 /\ events[j].what = what
LoadFailed == Has("log_error", "ImportError") \/ Has("log_error", "AttributeError")
Raised == \E i \in 1..Len(events) : events[i].kind = "raise"
ModuleGiven == cmdline.kind = "args" /\ cmdline.analysis_module # NoneValue

\* C5 (as claimed), for the runs whose command line argparse accepts: the
\* process ends with status 1 when no analysis module was named and with
\* status 0 otherwise.
C5_ExitOneOnlyWithoutModule ==
  (pc = "done" /\ cmdline.kind = "args") =>
    exit_status = IF cmdline.analysis_module = NoneValue THEN 1 ELSE 0

\* C5 (amended): a run that has ended has an exit status, which is 1
\* when no analysis module was named, 1 (an exception nobody
\* catches) when the module cannot be loaded or an analyze call raises, and
\* with status 0 when the module was loaded and every requested analysis
\* returned; argparse itself ends the run with 0 for --version and with 2 for
\* a usage error.
C5_ExitStatus ==
  /\ pc # "done" => exit_status = -1
  /\ pc = "done" =>
       exit_status = CASE cmdline.kind = "version" -> 0
                       [] cmdline.kind = "usage_error" -> 2
                       [] cmdline.kind = "args" /\ cmdline.analysis_module = NoneValue -> 1
                       [] ModuleGiven /\ (LoadFailed \/ Raised) -> 1
                       [] OTHER -> 0

\* C5 witness: a run that named a module and requested an analysis ended with
\* status 1 because the module could not be imported.
C5_Witness ==
  /\ pc = "done" /\ exit_status = 1
  /\ ModuleGiven /\ Truthy(cmdline.file)
  /\ Has("log_error", "ImportError")

\* C6 (as claimed), for the runs that end with status 0: every input given on
\* the command line was queried and then either analysed and printed or
\* skipped with a warning, and analyze_X ran only for a given input whose query
\* was True.
C6_EveryGivenInputHandled ==
  (pc = "done" /\ exit_status = 0 /\ constructed) =>
    \A X \in QueryCaps :
      /\ cmdline[X] # NoneValue =>
           /\ Has("query", X)
           /\ (Has("invoke", X) /\ Has("print", X)) # (Has("warn", X) /\ ~Has("invoke", X))
      /\ Has("invoke", X) => cmdline[X] # NoneValue /\ DeclaresCallable(klass, X)

\* C6 (amended): an input that was not given or is the empty string is passed
\* over without a query.  For every other input that the run gets to, the
\* client first queries can_analyze_X and then does one of: (a) on True,
\* invokes analyze_X once and prints the report it returns, or, when analyze_X
\* raises, ends the run there with a non-zero status and prints nothing; (b) on
\* False, logs the skip warning (and prints None) without invoking analyze_X.
\* analyze_X never runs for an input that was passed over or whose query was
\* False.
C6_NonEmptyInputHandled ==
  /\ \A X \in QueryCaps :
       /\ ~Truthy(cmdline[X]) =>
            \A kind \in {"query", "invoke", "print", "warn", "print_none"} : ~Has(kind, X)
       /\ \A kind \in {"query", "invoke", "print", "warn", "print_none"} : Count(kind, X) <= 1
       /\ Has("invoke", X) => HasBefore("query", "invoke", X) /\ DeclaresCallable(klass, X)
       /\ Has("print", X) => HasBefore("invoke", "print", X)
       /\ Has("warn", X) =>
            HasBefore("query", "warn", X) /\ ~Has("invoke", X) /\ ~DeclaresCallable(klass, X)
       /\ Has("query", X) => (Has("invoke", X) # Has("warn", X))
       /\ (Has("invoke", X) /\ ~Has("print", X)) => Raised
       /\ (pc = "exit" \/ (pc = "done" /\ exit_status = 0 /\ constructed)) =>
            (Truthy(cmdline[X]) => Has("query", X) /\ (Has("print", X) # Has("warn", X)))
  /\ \A i \in 1..Len(events) :
       /\ events[i].kind = "print" =>
            events[i].value = ConcreteReport(plugin_version, system_version, now, cmdline[events[i].what])
       /\ events[i].kind = "raise" =>
            /\ i = Len(events) /\ i > 1 /\ events[i - 1].kind = "invoke"
            /\ pc = "done" /\ exit_status # 0

\* C6 witness: a finished run in which the empty file argument was passed
\* over, the url was analysed and printed, and the ip was skipped with a
\* warning.
C6_Witness ==
  /\ pc = "done" /\ exit_status = 0
  /\ cmdline.file = "" /\ ~Has("query", "file")
  /\ HasBefore("invoke", "print", "url")
  /\ HasBefore("query", "warn", "ip") /\ ~Has("invoke", "ip")

\* C7: when the named module cannot be imported or has no analysis_class, the
\* failure is logged and the exception ends the process with a non-zero
\* status; the class is never instantiated and no analyze operation runs.
C7_LoadFailureIsTerminal ==
  /\ LoadFailed =>
       /\ pc = "done" /\ exit_status # 0
       /\ events[Len(events)].kind = "log_error"
       /\ ~constructed
       /\ klass = NoClass
       /\ \A i \in 1..Len(events) : events[i].kind \notin {"query", "invoke", "print"}
  /\ (pc = "done" /\ ModuleGiven /\ ~constructed) => LoadFailed

\* C7 witness: a run that requested analyses ended non-zero after logging that
\* the module has no analysis_class.
C7_Witness ==
  /\ pc = "done" /\ exit_status = 1
  /\ Has("log_error", "AttributeError")
  /\ Truthy(cmdline.url) /\ Truthy(cmdline.domain)
  /\ ~constructed

====
